---- MODULE Spec2Model ----
(***************************************************************************)
(* slack-channel-renamer (src/main.go): one run of the tool.               *)
(*                                                                         *)
(* main loads the rename plan, fetches the public channels page by page,   *)
(* validates the whole plan, and, in apply mode with a clean verdict,      *)
(* renames the active entries one by one through renameChannel, which      *)
(* retries on rate-limit errors.  The remote API is the environment: every *)
(* remote call is one step whose response is chosen nondeterministically.  *)
(***************************************************************************)
EXTENDS Integers, Sequences, FiniteSets, TLC

(***************************************************************************)
(* Bounds of the model.                                                    *)
(***************************************************************************)
MaxPlan == 2            \* data rows of channel_mapping.csv
MaxChannels == 2        \* channels the remote workspace lists
MaxFetchRetries == 1    \* rate-limit signals answered during the fetch

(***************************************************************************)
(* Program constants (src/main.go:17-23, 214); durations in seconds.       *)
(***************************************************************************)
apiTimeout == 15
sleepBetween == 1
rateLimitSleep == 5
maxRetries == 3
Limit == 200
MaxNameLen == 80

(***************************************************************************)
(* Channel names are sequences of characters.  The character classes are   *)
(* those of channelNameRe: [a-z0-9_\-\p{L}\p{N}].                          *)
(***************************************************************************)
LowerAscii == {"a", "b", "z"}
AsciiDigit == {"0", "1", "9"}
UnicodeLetter == {"N", "U+00E9"}      \* \p{L} beyond a-z: upper case, accented
UnicodeNumber == {"U+0663"}           \* \p{N} beyond 0-9

channelNameRe(s) ==
    /\ Len(s) >= 1
    /\ Len(s) <= MaxNameLen
    /\ \A k \in 1..Len(s) :
          s[k] \in LowerAscii \cup AsciiDigit \cup {"_", "-"}
                     \cup UnicodeLetter \cup UnicodeNumber

NameA == <<"a">>
NameB == <<"b", "-", "1">>
NameBad == <<"N", " ", "z", "!">>

ChannelNames == {NameA, NameB}              \* names of remote channels, asis
TargetNames == {NameA, NameB, NameBad}      \* tobe

renameEntry == [asis : ChannelNames, tobe : TargetNames]

RECURSIVE SeqsUpTo(_, _)
SeqsUpTo(S, n) ==
    IF n = 0 THEN {<<>>}
    ELSE LET shorter == SeqsUpTo(S, n - 1)
         IN  shorter \cup {Append(q, x) : q \in {r \in shorter : Len(r) = n - 1}, x \in S}

\* What loadCSV can return without error: at least one data row, no empty field.
Plans == {p \in SeqsUpTo(renameEntry, MaxPlan) : Len(p) >= 1}

ChannelId(k) == <<"C", k>>

\* The workspace's public channels as the listing enumerates them.
Listings ==
    {[k \in 1..Len(q) |-> [ID |-> ChannelId(k), Name |-> q[k].Name, IsArchived |-> q[k].IsArchived]] :
        q \in SeqsUpTo([Name : ChannelNames, IsArchived : BOOLEAN], MaxChannels)}

RetryAfters == {0, 30}      \* rle.RetryAfter; 0: the signal carries none

\* Errors of a remote call other than the rate-limit signal; the per-call
\* timeout (context.WithTimeout(..., apiTimeout)) is one of them.
RemoteErrors == {"context deadline exceeded", "api error"}

VARIABLES
    tokenSet,       \* SLACK_USER_TOKEN is set
    applyMode,      \* APPLY=true
    remote,         \* the workspace's public channels (environment)
    pc,             \* phase of main
    exitCode,       \* process exit code, -1 while running
    phases,         \* phases entered so far, in order
    plan,           \* result of loadCSV
    channels,       \* name -> channelInfo, built by fetchPublicChannels
    cursor,         \* fetchPublicChannels: cursor of the next page, 0 is ""
    listLog,        \* fetchPublicChannels: listing calls answered with a page or an error
    fetchSleeps,    \* fetchPublicChannels: listing calls answered with the rate-limit signal
                    \* (both kept until main has taken the verdict)
    errs, skipped,  \* result of validatePlan
    activePlan,
    i,              \* index of the apply loop (0-based as in the code)
    attempt,        \* renameChannel: loop counter
    wait,           \* duration of the backoff sleep of the last step, 0 if it had none
    failed,
    stdout,         \* OK / FAIL lines printed by the apply loop
    trace           \* apply phase: pauses, remote rename calls, backoff sleeps

vars == <<tokenSet, applyMode, remote, pc, exitCode, phases, plan, channels, cursor,
          listLog, fetchSleeps, errs, skipped, activePlan, i, attempt, wait, failed, stdout, trace>>

Init ==
    /\ tokenSet \in BOOLEAN
    /\ applyMode \in BOOLEAN
    /\ remote \in Listings
    /\ pc = "Loading"
    /\ exitCode = -1
    /\ phases = <<"Loading">>
    /\ plan = <<>>
    /\ channels = <<>>
    /\ cursor = 0
    /\ listLog = <<>>
    /\ fetchSleeps = 0
    /\ errs = <<>>
    /\ skipped = <<>>
    /\ activePlan = <<>>
    /\ i = 0
    /\ attempt = 1
    /\ wait = 0
    /\ failed = FALSE
    /\ stdout = <<>>
    /\ trace = <<>>

Enter(phase) ==
    /\ pc' = phase
    /\ phases' = Append(phases, phase)

\* log.Fatal / log.Fatalf: exit status 1.
Fatal ==
    /\ Enter("Fatal")
    /\ exitCode' = 1

(***************************************************************************)
(* main, lines 40-53: token check, then loadCSV.                           *)
(***************************************************************************)
loadCSV ==
    /\ pc = "Loading"
    /\ \/ /\ ~tokenSet
          /\ Fatal
          /\ UNCHANGED plan
       \/ /\ tokenSet
          /\ Fatal                      \* loadCSV returned an error
          /\ UNCHANGED plan
       \/ /\ tokenSet
          /\ \E p \in Plans : plan' = p
          /\ Enter("Fetching")
          /\ UNCHANGED exitCode
    /\ UNCHANGED <<tokenSet, applyMode, remote, channels, cursor, listLog, fetchSleeps, errs, skipped,
                   activePlan, i, attempt, wait, failed, stdout, trace>>

(***************************************************************************)
(* validatePlan, lines 163-200.  Messages are kept as records: the kind of *)
(* the message and the name it quotes.                                     *)
(***************************************************************************)
Msg(kind, name) == [kind |-> kind, name |-> name]

tobeCount(p, t) == Cardinality({k \in 1..Len(p) : p[k].tobe = t})

\* if e.asis != e.tobe { if existing, exists := channels[e.tobe]; exists && !existing.IsArchived
targetExists_evenArchived(e, chans) == e.asis # e.tobe /\ e.tobe \in DOMAIN chans

targetExists(e, chans) ==
    /\ e.asis # e.tobe
    /\ e.tobe \in DOMAIN chans
    /\ ~chans[e.tobe].IsArchived

\* if tobeCount[e.tobe] > 1 && !duplicatesReported[e.tobe]
duplicateFound_everyTime(p, e, duplicatesReported) == tobeCount(p, e.tobe) > 1

duplicateFound(p, e, duplicatesReported) ==
    tobeCount(p, e.tobe) > 1 /\ e.tobe \notin duplicatesReported

RECURSIVE validateLoop(_, _, _, _, _, _)
validateLoop(p, chans, k, es, sk, duplicatesReported) ==
    IF k > Len(p) THEN [errs |-> es, skipped |-> sk]
    ELSE LET e == p[k] IN
         IF e.asis \notin DOMAIN chans
         THEN validateLoop(p, chans, k + 1, Append(es, Msg("not found", e.asis)), sk,
                           duplicatesReported)
         ELSE IF chans[e.asis].IsArchived
         THEN validateLoop(p, chans, k + 1, es, Append(sk, Msg("archived, skipping", e.asis)),
                           duplicatesReported)
         ELSE LET es1 == IF ~channelNameRe(e.tobe)
                         THEN Append(es, Msg("invalid", e.tobe)) ELSE es
                  es2 == IF targetExists(e, chans)
                         THEN Append(es1, Msg("target already exists", e.tobe)) ELSE es1
                  dup == duplicateFound(p, e, duplicatesReported)
                  es3 == IF dup THEN Append(es2, Msg("duplicate tobe target", e.tobe)) ELSE es2
              IN  validateLoop(p, chans, k + 1, es3, sk,
                               IF dup THEN duplicatesReported \cup {e.tobe}
                               ELSE duplicatesReported)

validatePlan_firstErrorOnly(p, chans) ==
    LET v == validateLoop(p, chans, 1, <<>>, <<>>, {})
    IN  [errs |-> IF v.errs = <<>> THEN <<>> ELSE <<Head(v.errs)>>, skipped |-> v.skipped]

validatePlan(p, chans) == validateLoop(p, chans, 1, <<>>, <<>>, {})

(***************************************************************************)
(* fetchPublicChannels, lines 204-243: one iteration of the loop, that is  *)
(* one remote listing call and what the code does with its response.       *)
(***************************************************************************)
Min(a, b) == IF a < b THEN a ELSE b

\* An index that keeps the first channel seen under a name.
RECURSIVE putPage_firstWins(_, _)
putPage_firstWins(chans, page) ==
    IF page = <<>> THEN chans
    ELSE LET ch == Head(page)
             put == [n \in DOMAIN chans \cup {ch.Name} |->
                        IF n \in DOMAIN chans THEN chans[n]
                        ELSE [ID |-> ch.ID, IsArchived |-> ch.IsArchived]]
         IN  putPage_firstWins(put, Tail(page))

\* channels[ch.Name] = channelInfo{...} for each channel of the page, in order.
RECURSIVE putPage(_, _)
putPage(chans, page) ==
    IF page = <<>> THEN chans
    ELSE LET ch == Head(page)
             put == [n \in DOMAIN chans \cup {ch.Name} |->
                        IF n = ch.Name THEN [ID |-> ch.ID, IsArchived |-> ch.IsArchived]
                        ELSE chans[n]]
         IN  putPage(put, Tail(page))

\* wait := rle.RetryAfter; if wait <= 0 { wait = rateLimitSleep }
backoff(retryAfter) == IF retryAfter <= 0 THEN rateLimitSleep ELSE retryAfter

\* A listing call as the fetch observes it.
ListCall(result) == [cursor |-> cursor, result |-> result]

\* A retry that starts the listing over instead of repeating the page.
fetchRateLimited_restart ==
    /\ pc = "Fetching"
    /\ fetchSleeps < MaxFetchRetries
    /\ fetchSleeps' = fetchSleeps + 1
    /\ \E ra \in RetryAfters : wait' = backoff(ra)
    /\ cursor' = 0
    /\ channels' = <<>>
    /\ UNCHANGED <<tokenSet, applyMode, remote, pc, exitCode, phases, plan,
                   listLog, errs, skipped, activePlan, i, attempt, failed, stdout, trace>>

fetchRateLimited ==
    /\ pc = "Fetching"
    /\ fetchSleeps < MaxFetchRetries
    /\ fetchSleeps' = fetchSleeps + 1
    /\ \E ra \in RetryAfters : wait' = backoff(ra)        \* time.Sleep(wait); continue
    /\ UNCHANGED <<tokenSet, applyMode, remote, pc, exitCode, phases, plan, channels, cursor,
                   listLog, errs, skipped, activePlan, i, attempt, failed, stdout, trace>>

\* return nil, fmt.Errorf("GetConversationsContext: %w", err), and main's log.Fatalf.
fetchFailed_swallowed ==
    /\ UNCHANGED <<channels, exitCode>>
    /\ Enter("Validating")

fetchFailed ==
    /\ channels' = <<>>
    /\ Fatal

fetchError ==
    /\ pc = "Fetching"
    /\ RemoteErrors # {}               \* whichever it is, the code treats it alike
    /\ listLog' = Append(listLog, ListCall("error"))
    /\ fetchFailed
    /\ wait' = 0
    /\ UNCHANGED <<tokenSet, applyMode, remote, plan, cursor, fetchSleeps, errs, skipped,
                   activePlan, i, attempt, failed, stdout, trace>>

fetchPage ==
    /\ pc = "Fetching"
    /\ LET rest == Len(remote) - cursor IN
       \E n \in (IF rest = 0 THEN {0} ELSE 1..Min(Limit, rest)) :
          LET page == SubSeq(remote, cursor + 1, cursor + n)
              nextCursor == IF cursor + n = Len(remote) THEN 0 ELSE cursor + n
          IN  /\ listLog' = Append(listLog, ListCall("page"))
              /\ channels' = putPage(channels, page)
              /\ IF nextCursor = 0
                 THEN /\ Enter("Validating")
                      /\ UNCHANGED cursor
                 ELSE /\ cursor' = nextCursor
                      /\ UNCHANGED <<pc, phases>>
    /\ wait' = 0
    /\ UNCHANGED <<tokenSet, applyMode, remote, exitCode, plan, fetchSleeps, errs, skipped,
                   activePlan, i, attempt, failed, stdout, trace>>

(***************************************************************************)
(* main, lines 61-69: the verdict and its gate.                            *)
(***************************************************************************)
\* if len(errs) > 0 { ...; os.Exit(1) }
blocked_never(es) == FALSE

blocked(es) == Len(es) > 0

validate ==
    /\ pc = "Validating"
    /\ LET v == validatePlan(plan, channels) IN
       /\ errs' = v.errs
       /\ skipped' = v.skipped
       /\ IF blocked(v.errs)
          THEN /\ Enter("Blocked")
               /\ exitCode' = 1
          ELSE /\ Enter("Reporting")
               /\ UNCHANGED exitCode
    /\ listLog' = <<>>
    /\ fetchSleeps' = 0
    /\ UNCHANGED <<tokenSet, applyMode, remote, plan, channels, cursor, activePlan,
                   i, attempt, wait, failed, stdout, trace>>

(***************************************************************************)
(* main, lines 70-94: skip notices, the active plan, the dry-run exit.     *)
(***************************************************************************)
RECURSIVE activeEntries_withArchived(_, _)
activeEntries_withArchived(p, chans) ==
    IF p = <<>> THEN <<>>
    ELSE LET entry == Head(p)
             rest == activeEntries_withArchived(Tail(p), chans)
         IN  IF entry.asis \in DOMAIN chans THEN <<entry>> \o rest ELSE rest

RECURSIVE activeEntries_skipSelfRename(_, _)
activeEntries_skipSelfRename(p, chans) ==
    IF p = <<>> THEN <<>>
    ELSE LET entry == Head(p)
             rest == activeEntries_skipSelfRename(Tail(p), chans)
         IN  IF /\ entry.asis \in DOMAIN chans
                /\ ~chans[entry.asis].IsArchived
                /\ entry.asis # entry.tobe
             THEN <<entry>> \o rest ELSE rest

\* for _, entry := range plan { if ch, ok := channels[entry.asis]; ok && !ch.IsArchived {...} }
RECURSIVE activeEntries(_, _)
activeEntries(p, chans) ==
    IF p = <<>> THEN <<>>
    ELSE LET entry == Head(p)
             rest == activeEntries(Tail(p), chans)
         IN  IF entry.asis \in DOMAIN chans /\ ~chans[entry.asis].IsArchived
             THEN <<entry>> \o rest ELSE rest

\* if !applyMode { ...; return }
dryRun_never(mode) == FALSE

dryRun(mode) == ~mode

report ==
    /\ pc = "Reporting"
    /\ activePlan' = activeEntries(plan, channels)
    /\ IF dryRun(applyMode)
       THEN /\ Enter("Done")
            /\ exitCode' = 0
       ELSE /\ Enter("Applying")
            /\ UNCHANGED exitCode
    /\ UNCHANGED <<tokenSet, applyMode, remote, plan, channels, cursor, listLog, fetchSleeps,
                   errs, skipped, i, attempt, wait, failed, stdout, trace>>

(***************************************************************************)
(* The apply loop (lines 96-106) around renameChannel (lines 246-272):     *)
(* one step is one remote rename call of the current entry, preceded by    *)
(* the pacing pause when it is the entry's first call, and followed by     *)
(* what the code does with the response.                                   *)
(***************************************************************************)
Event(ev, resp) ==
    [ev |-> ev, i |-> i, attempt |-> attempt, ID |-> channels[activePlan[i + 1].asis].ID,
     name |-> activePlan[i + 1].tobe, resp |-> resp]

\* A pause before every entry, the first included.
pacing_everyEntry == IF attempt = 1 THEN <<Event("pause", "")>> ELSE <<>>

\* if i > 0 { time.Sleep(sleepBetween) }
pacing == IF attempt = 1 /\ i > 0 THEN <<Event("pause", "")>> ELSE <<>>

\* The remote renames the channel with this id.
renamed(chs, id, name) ==
    [k \in DOMAIN chs |-> IF chs[k].ID = id THEN [chs[k] EXCEPT !.Name = name] ELSE chs[k]]

\* errors.As(err, &rle)
isRateLimited_anyError(resp) == resp # "ok"

isRateLimited(resp) == resp = "rate_limited"

\* time.Sleep(wait) of renameChannel
sleepOnRateLimit_none == <<>>

\* No sleep after the last attempt.
sleepOnRateLimit_notAfterLast == IF attempt < maxRetries THEN <<Event("backoff", "")>> ELSE <<>>

sleepOnRateLimit == <<Event("backoff", "")>>

\* for attempt := 1; attempt <= maxRetries; attempt++
loopGoesOn_offByOne(a) == a <= maxRetries + 1

loopGoesOn(a) == a <= maxRetries

exceededMaxRetries(asis, tobe) == <<"exceeded max retries", maxRetries, asis, tobe>>

\* failed = true
anyFailed_lastOnly(f, err) == err # <<>>

anyFailed(f, err) == f \/ err # <<>>

\* renameChannel has returned err (<<>> is nil): lines 100-105, and the loop goes on.
returned_stopOnFail(entry, err) ==
    /\ stdout' = Append(stdout, [line |-> IF err = <<>> THEN "OK" ELSE "FAIL",
                                 asis |-> entry.asis, tobe |-> entry.tobe, err |-> err])
    /\ failed' = anyFailed(failed, err)
    /\ i' = IF err = <<>> THEN i + 1 ELSE Len(activePlan)
    /\ attempt' = 1

returned(entry, err) ==
    /\ stdout' = Append(stdout, [line |-> IF err = <<>> THEN "OK" ELSE "FAIL",
                                 asis |-> entry.asis, tobe |-> entry.tobe, err |-> err])
    /\ failed' = anyFailed(failed, err)
    /\ i' = i + 1
    /\ attempt' = 1

renameCall ==
    /\ pc = "Applying"
    /\ i < Len(activePlan)
    /\ LET entry == activePlan[i + 1] IN
       \E resp \in {"ok", "rate_limited"} \cup RemoteErrors :
          IF resp = "ok"
          THEN /\ trace' = trace \o pacing \o <<Event("rename", resp)>>
               /\ remote' = renamed(remote, channels[entry.asis].ID, entry.tobe)
               /\ wait' = 0
               /\ returned(entry, <<>>)
          ELSE IF isRateLimited(resp)
          THEN /\ trace' = trace \o pacing \o <<Event("rename", resp)>> \o sleepOnRateLimit
               /\ \E ra \in RetryAfters : wait' = backoff(ra)
               /\ IF loopGoesOn(attempt + 1)
                  THEN /\ attempt' = attempt + 1
                       /\ UNCHANGED <<i, failed, stdout>>
                  ELSE returned(entry, exceededMaxRetries(entry.asis, entry.tobe))
               /\ UNCHANGED remote
          ELSE /\ trace' = trace \o pacing \o <<Event("rename", resp)>>
               /\ wait' = 0
               /\ returned(entry, <<resp>>)
               /\ UNCHANGED remote
    /\ UNCHANGED <<tokenSet, applyMode, pc, exitCode, phases, plan, channels, cursor,
                   listLog, fetchSleeps, errs, skipped, activePlan>>

\* main, lines 108-111.
finish ==
    /\ pc = "Applying"
    /\ i >= Len(activePlan)
    /\ Enter("Done")
    /\ exitCode' = IF failed THEN 1 ELSE 0
    /\ wait' = 0
    /\ UNCHANGED <<tokenSet, applyMode, remote, plan, channels, cursor, listLog, fetchSleeps,
                   errs, skipped, activePlan, i, attempt, failed, stdout, trace>>

Next ==
    \/ loadCSV
    \/ fetchRateLimited
    \/ fetchError
    \/ fetchPage
    \/ validate
    \/ report
    \/ renameCall
    \/ finish

Spec == Init /\ [][Next]_vars

(***************************************************************************)
(* What a run shows: the remote rename calls, the phases, the exit.        *)
(***************************************************************************)
Entered(phase) == \E k \in 1..Len(phases) : phases[k] = phase

Exited == pc \in {"Done", "Blocked", "Fatal"}

RenameCallAt(k) == trace[k].ev = "rename"

RenameCallPositions == {k \in 1..Len(trace) : RenameCallAt(k)}

IsActive(entry, chans) == entry.asis \in DOMAIN chans /\ ~chans[entry.asis].IsArchived

\* A remote rename call was issued for the entry at position k of the plan:
\* a call with the id the index gives its asis, and its tobe as the new name.
IssuedFor(k) ==
    /\ plan[k].asis \in DOMAIN channels
    /\ \E c \in RenameCallPositions :
          /\ trace[c].ID = channels[plan[k].asis].ID
          /\ trace[c].name = plan[k].tobe

\* The entry at position k of the plan gives no error when validated alone.
CleanAlone(k) == validatePlan(<<plan[k]>>, channels).errs = <<>>

(***************************************************************************)
(* C1: if validatePlan returns a non-empty error list for the loaded plan  *)
(* and the fetched index, the run is blocked with exit code 1 and issues   *)
(* no remote rename call, in dry-run and in apply mode, whatever entries   *)
(* validate cleanly on their own.                                          *)
(***************************************************************************)
C1_ErrorsBlockEveryRename ==
    (Entered("Validating") /\ pc # "Validating" /\ Len(validatePlan(plan, channels).errs) > 0)
        => /\ errs = validatePlan(plan, channels).errs
           /\ pc = "Blocked"
           /\ exitCode = 1
           /\ RenameCallPositions = {}
           /\ trace = <<>>

\* Apply mode, blocked, although some entry is active and clean on its own.
C1_Witness ==
    /\ applyMode
    /\ pc = "Blocked"
    /\ Len(errs) > 0
    /\ \E k \in 1..Len(plan) : IsActive(plan[k], channels) /\ CleanAlone(k)

AttemptedIndexes == {trace[c].i : c \in RenameCallPositions}

Succeeded(j) == \E c \in RenameCallPositions : trace[c].i = j /\ trace[c].resp = "ok"

C3_ExitCode ==
    /\ ~Exited => exitCode = -1
    /\ Exited => exitCode \in {0, 1}
    /\ Exited => (exitCode = 0 <=> /\ pc = "Done"
                                   /\ \A j \in AttemptedIndexes : Succeeded(j))
    /\ pc \in {"Fatal", "Blocked"} => exitCode = 1

\* The first rename failed, the second succeeded, and the exit code is 1.
C3_Witness ==
    /\ pc = "Done"
    /\ exitCode = 1
    /\ Len(stdout) = 2
    /\ stdout[1].line = "FAIL"
    /\ stdout[2].line = "OK"

ActiveIndexes == 0..(Len(activePlan) - 1)

CallsOf(j) == SelectSeq(trace, LAMBDA e : e.ev = "rename" /\ e.i = j)

BackoffsOf(j) == SelectSeq(trace, LAMBDA e : e.ev = "backoff" /\ e.i = j)

EventsOf(j) == SelectSeq(trace, LAMBDA e : e.i = j)

AllRateLimited(c) == \A k \in 1..Len(c) : c[k].resp = "rate_limited"

\* renameChannel has returned for entry j and main has printed its line.
Returned(j) == Len(stdout) > j

(***************************************************************************)
(* C5: no entry gets more than 3 remote rename calls; an entry whose 3     *)
(* calls were all answered with the rate-limit signal has failed with the  *)
(* error "exceeded max retries (3) for asis -> tobe" and has no success.   *)
(***************************************************************************)
C5_AtMostThreeCalls ==
    \A j \in ActiveIndexes :
        LET c == CallsOf(j) IN
        /\ Len(c) <= 3
        /\ \A k \in 1..Len(c) : c[k].attempt = k
        /\ (Len(c) = 3 /\ AllRateLimited(c))
              => /\ Returned(j)
                 /\ stdout[j + 1] = [line |-> "FAIL",
                                     asis |-> activePlan[j + 1].asis,
                                     tobe |-> activePlan[j + 1].tobe,
                                     err |-> <<"exceeded max retries", 3,
                                               activePlan[j + 1].asis, activePlan[j + 1].tobe>>]
                 /\ ~Succeeded(j)

\* An entry rate-limited three times.
C5_Witness ==
    \E j \in ActiveIndexes : Len(CallsOf(j)) = 3 /\ AllRateLimited(CallsOf(j))

(***************************************************************************)
(* C6: when a rename call of an entry succeeds, it is the entry's last     *)
(* event: the k calls before it (k = 0, 1 or 2) were rate-limited, there   *)
(* were exactly k backoff sleeps, and renameChannel returned success, so   *)
(* the entry is reported OK after k+1 calls.                               *)
(***************************************************************************)
C6_SuccessAfterRateLimits ==
    \A j \in ActiveIndexes :
        LET c == CallsOf(j)
            ev == EventsOf(j)
        IN  Succeeded(j)
              => /\ Len(c) \in 1..3
                 /\ c[Len(c)].resp = "ok"
                 /\ AllRateLimited(SubSeq(c, 1, Len(c) - 1))
                 /\ Len(BackoffsOf(j)) = Len(c) - 1
                 /\ ev[Len(ev)].ev = "rename" /\ ev[Len(ev)].resp = "ok"
                 /\ Returned(j)
                 /\ stdout[j + 1].line = "OK"
                 /\ stdout[j + 1].err = <<>>

\* Rate-limited twice, success on the third attempt, two backoff sleeps.
C6_Witness ==
    \E j \in ActiveIndexes :
        /\ Len(CallsOf(j)) = 3
        /\ CallsOf(j)[3].resp = "ok"
        /\ Len(BackoffsOf(j)) = 2
        /\ Returned(j)
        /\ stdout[j + 1].line = "OK"

(***************************************************************************)
(* C7: a rename call answered with an error other than the rate-limit      *)
(* signal (the per-call timeout included) ends its entry: it is the last   *)
(* event of the entry, so no backoff sleep and no further call follow, and *)
(* the entry is reported FAIL with that very error, at any attempt.        *)
(***************************************************************************)
C7_OtherErrorIsTerminal ==
    \A c \in RenameCallPositions :
        trace[c].resp \in RemoteErrors
          => LET j == trace[c].i IN
             /\ \A d \in (c + 1)..Len(trace) : trace[d].i # j
             /\ Returned(j)
             /\ stdout[j + 1].line = "FAIL"
             /\ stdout[j + 1].err = <<trace[c].resp>>
             /\ Len(BackoffsOf(j)) = trace[c].attempt - 1

\* The per-call timeout strikes at the third attempt, after two rate limits.
C7_Witness ==
    \E c \in RenameCallPositions :
        /\ trace[c].resp = "context deadline exceeded"
        /\ trace[c].attempt = 3

(***************************************************************************)
(* C8: in apply mode with a clean verdict the entries are attempted in     *)
(* the order of the plan: the calls never go back to an earlier entry, an  *)
(* entry is called only when every entry before it has been called and     *)
(* has its line printed, failed or not, and at the end every active entry  *)
(* has at least one call and its OK or FAIL line, OK exactly when one of   *)
(* its calls succeeded.                                                    *)
(***************************************************************************)
C8_EveryActiveEntryAttemptedInOrder ==
    Entered("Applying") =>
        /\ activePlan = SelectSeq(plan, LAMBDA e : IsActive(e, channels))
        /\ \A c, d \in RenameCallPositions : c < d => trace[c].i <= trace[d].i
        /\ \A j \in ActiveIndexes :
              /\ CallsOf(j) # <<>> => \A h \in 0..(j - 1) : CallsOf(h) # <<>> /\ Returned(h)
              /\ Returned(j)
                    => /\ CallsOf(j) # <<>>
                       /\ stdout[j + 1].asis = activePlan[j + 1].asis
                       /\ stdout[j + 1].tobe = activePlan[j + 1].tobe
                       /\ stdout[j + 1].line = (IF Succeeded(j) THEN "OK" ELSE "FAIL")
              /\ pc = "Done" => Returned(j)
        /\ Len(stdout) <= Len(activePlan)

\* The first entry exhausted its retries and the second was still attempted.
C8_Witness ==
    /\ pc = "Done"
    /\ Len(activePlan) = 2
    /\ Len(CallsOf(0)) = 3
    /\ AllRateLimited(CallsOf(0))
    /\ CallsOf(1) # <<>>

(***************************************************************************)
(* C9: the active plan is the plan without the entries whose asis is       *)
(* missing from the index or archived, in the plan's order, and every      *)
(* remote rename call carries the id the index gives to the asis of such   *)
(* an entry and that entry's tobe; no call carries the id of an archived   *)
(* channel of the index.                                                   *)
(***************************************************************************)
C9_OnlyActiveEntriesAreRenamed ==
    /\ (Entered("Applying") \/ pc = "Done")
          => activePlan = SelectSeq(plan, LAMBDA e : IsActive(e, channels))
    /\ \A c \in RenameCallPositions :
          /\ \E k \in 1..Len(plan) :
                /\ IsActive(plan[k], channels)
                /\ trace[c].ID = channels[plan[k].asis].ID
                /\ trace[c].name = plan[k].tobe
          /\ \A n \in DOMAIN channels : channels[n].IsArchived => trace[c].ID # channels[n].ID
    /\ \A k \in 1..Len(plan) : ~IsActive(plan[k], channels) => ~IssuedFor(k)

\* The first entry of the plan is archived and skipped, the second is being renamed.
C9_Witness ==
    /\ pc = "Applying"
    /\ Len(plan) = 2
    /\ plan[1].asis \in DOMAIN channels
    /\ channels[plan[1].asis].IsArchived
    /\ activePlan = <<plan[2]>>
    /\ RenameCallPositions # {}

(***************************************************************************)
(* C10: the phases follow Loading, Fetching, Validating, Blocked or        *)
(* Reporting, Done or Applying, Done; a rename call is issued only in      *)
(* Applying, after the load, the fetch and the validation; a failed load   *)
(* ends the run at once, before any listing call, and a failed listing     *)
(* call ends it at once too, both with exit code 1 and no rename call.     *)
(***************************************************************************)
PhaseSteps ==
    {<<"Loading", "Fetching">>, <<"Loading", "Fatal">>,
     <<"Fetching", "Validating">>, <<"Fetching", "Fatal">>,
     <<"Validating", "Blocked">>, <<"Validating", "Reporting">>,
     <<"Reporting", "Done">>, <<"Reporting", "Applying">>,
     <<"Applying", "Done">>}

C10_PhaseOrder ==
    /\ phases[1] = "Loading"
    /\ phases[Len(phases)] = pc
    /\ \A k \in 1..(Len(phases) - 1) : <<phases[k], phases[k + 1]>> \in PhaseSteps
    /\ trace # <<>>
          => SubSeq(phases, 1, 5) = <<"Loading", "Fetching", "Validating", "Reporting", "Applying">>
    /\ pc = "Fatal" => exitCode = 1 /\ trace = <<>>
    /\ (pc # "Loading" /\ plan = <<>>)
          => /\ phases = <<"Loading", "Fatal">>
             /\ listLog = <<>>
             /\ fetchSleeps = 0
             /\ channels = <<>>
    /\ (\E k \in 1..Len(listLog) : listLog[k].result = "error")
          => /\ phases = <<"Loading", "Fetching", "Fatal">>
             /\ listLog[Len(listLog)].result = "error"
             /\ exitCode = 1
             /\ trace = <<>>

\* A full apply run: every phase in order and a rename call issued.
C10_Witness ==
    /\ phases = <<"Loading", "Fetching", "Validating", "Reporting", "Applying", "Done">>
    /\ RenameCallPositions # {}

(***************************************************************************)
(* The verdict seen from outside: the messages of validatePlan for the     *)
(* loaded plan and the fetched index, once main has taken it.              *)
(***************************************************************************)
VerdictTaken == pc \in {"Blocked", "Reporting"}

Count(msgs, m) == Cardinality({k \in 1..Len(msgs) : msgs[k] = m})

Sharing(t) == {k \in 1..Len(plan) : plan[k].tobe = t}

(***************************************************************************)
(* C11 as stated: for every tobe value that two or more entries of the     *)
(* plan share, the verdict holds exactly one duplicate-target error, and   *)
(* none for a value that a single entry has.                               *)
(***************************************************************************)
C11_OneErrorPerSharedTarget ==
    VerdictTaken =>
        \A t \in TargetNames :
            Count(errs, Msg("duplicate tobe target", t))
                = (IF Cardinality(Sharing(t)) >= 2 THEN 1 ELSE 0)

(***************************************************************************)
(* C11 amended: the verdict holds exactly one duplicate-target error for   *)
(* a tobe value that two or more entries of the plan share when at least   *)
(* one of those entries has an asis that is in the index and not archived, *)
(* and none otherwise, whatever the number of entries sharing it.          *)
(***************************************************************************)
C11_OneErrorPerSharedTargetOfAnActiveEntry ==
    VerdictTaken =>
        \A t \in TargetNames :
            Count(errs, Msg("duplicate tobe target", t))
                = (IF /\ Cardinality(Sharing(t)) >= 2
                      /\ \E k \in Sharing(t) : IsActive(plan[k], channels)
                   THEN 1 ELSE 0)

\* Two active entries share a target: one error, not two.
C11_Witness ==
    /\ pc = "Blocked"
    /\ \E t \in TargetNames :
          /\ Cardinality({k \in Sharing(t) : IsActive(plan[k], channels)}) >= 2
          /\ Count(errs, Msg("duplicate tobe target", t)) = 1

(***************************************************************************)
(* C12: every entry whose asis is archived in the index gives one skip     *)
(* notice and is left out of the active plan, whatever its tobe, and no    *)
(* error of the verdict is due to such an entry: the errors are those of   *)
(* the plan without its archived-asis entries.                             *)
(***************************************************************************)
IsArchivedEntry(e) == e.asis \in DOMAIN channels /\ channels[e.asis].IsArchived

WithoutArchived(p) == SelectSeq(p, LAMBDA e : ~IsArchivedEntry(e))

C12_ArchivedEntryCausesNoError ==
    VerdictTaken =>
        /\ \A n \in ChannelNames :
              Count(skipped, Msg("archived, skipping", n))
                  = Cardinality({k \in 1..Len(plan) : plan[k].asis = n /\ IsArchivedEntry(plan[k])})
        /\ \A j \in 1..Len(activeEntries(plan, channels)) :
              ~IsArchivedEntry(activeEntries(plan, channels)[j])
        /\ errs = validatePlan(WithoutArchived(plan), channels).errs

(***************************************************************************)
(* C13: the verdict holds one target-already-exists error for each entry   *)
(* with an existing, non-archived asis whose tobe differs from its asis    *)
(* and names a channel that is in the index and not archived, and no       *)
(* other: none for a target that is in the index only as an archived       *)
(* channel, none for a self-rename.                                        *)
(***************************************************************************)
Colliding(t) ==
    {k \in 1..Len(plan) :
        /\ IsActive(plan[k], channels)
        /\ plan[k].tobe = t
        /\ plan[k].asis # t
        /\ t \in DOMAIN channels
        /\ ~channels[t].IsArchived}

C13_TargetExistsIffActiveNamesake ==
    VerdictTaken =>
        /\ \A t \in TargetNames :
              Count(errs, Msg("target already exists", t)) = Cardinality(Colliding(t))
        /\ \A k \in 1..Len(plan) :
              IsActive(plan[k], channels) =>
                 ((\E m \in 1..Len(validatePlan(<<plan[k]>>, channels).errs) :
                       validatePlan(<<plan[k]>>, channels).errs[m].kind = "target already exists")
                  <=> k \in Colliding(plan[k].tobe))

\* Blocked by a collision, beside a self-rename and a rename onto an archived name.
C13_Witness ==
    /\ VerdictTaken
    /\ \E t \in TargetNames : Count(errs, Msg("target already exists", t)) = 1

\* A clean verdict with a rename onto the name of an archived channel.
C13_ArchivedTargetReached ==
    /\ pc = "Reporting"
    /\ \E k \in 1..Len(plan) :
          /\ IsActive(plan[k], channels)
          /\ plan[k].tobe # plan[k].asis
          /\ plan[k].tobe \in DOMAIN channels

(***************************************************************************)
(* C14: validatePlan visits every entry and returns, in plan order, the    *)
(* errors of all entries: an entry whose asis is absent from the index     *)
(* gives one not-found error and nothing else, an archived one gives none, *)
(* an active one gives its invalid-name, target-exists and duplicate       *)
(* errors.  So a two-entry plan with one entry whose asis is absent and    *)
(* one active entry whose tobe is invalid yields exactly two errors        *)
(* (not-found, invalid-name), no rename call and exit status 1.            *)
(***************************************************************************)
FirstActiveSharing(t) ==
    {k \in Sharing(t) :
        /\ IsActive(plan[k], channels)
        /\ \A m \in Sharing(t) : IsActive(plan[m], channels) => k <= m}

ErrorsOfEntry(k) ==
    IF plan[k].asis \notin DOMAIN channels THEN <<Msg("not found", plan[k].asis)>>
    ELSE IF channels[plan[k].asis].IsArchived THEN <<>>
    ELSE (IF channelNameRe(plan[k].tobe) THEN <<>> ELSE <<Msg("invalid", plan[k].tobe)>>)
         \o (IF k \in Colliding(plan[k].tobe)
               THEN <<Msg("target already exists", plan[k].tobe)>> ELSE <<>>)
         \o (IF Cardinality(Sharing(plan[k].tobe)) >= 2 /\ k \in FirstActiveSharing(plan[k].tobe)
               THEN <<Msg("duplicate tobe target", plan[k].tobe)>> ELSE <<>>)

RECURSIVE ErrorsUpTo(_)
ErrorsUpTo(k) == IF k = 0 THEN <<>> ELSE ErrorsUpTo(k - 1) \o ErrorsOfEntry(k)

AllErrorsInPlanOrder == VerdictTaken => errs = ErrorsUpTo(Len(plan))

\* Entry j has an asis absent from the index, entry k is active with an invalid tobe.
MissingAndInvalid(j, k) ==
    /\ Len(plan) = 2
    /\ j # k
    /\ plan[j].asis \notin DOMAIN channels
    /\ IsActive(plan[k], channels)
    /\ ~channelNameRe(plan[k].tobe)

TwoErrorsNoRename(j, k) ==
    /\ Len(errs) = 2
    /\ \E m \in 1..2 : errs[m] = Msg("not found", plan[j].asis)
    /\ \E m \in 1..2 : errs[m] = Msg("invalid", plan[k].tobe)
    /\ pc = "Blocked"
    /\ exitCode = 1
    /\ trace = <<>>

ListingErrors == {k \in 1..Len(listLog) : listLog[k].result = "error"}

\* The step of a rate-limited page request.
RateLimitedStep == pc = "Fetching" /\ fetchSleeps' = fetchSleeps + 1

SamePageRetried ==
    /\ wait' \in {rateLimitSleep} \cup (RetryAfters \ {0})
    /\ pc' = "Fetching"
    /\ cursor' = cursor
    /\ channels' = channels
    /\ listLog' = listLog
    /\ exitCode' = exitCode

FetchOutcome ==
    /\ (pc = "Fetching" /\ fetchSleeps < MaxFetchRetries) => ENABLED fetchRateLimited
    /\ pc = "Fetching" => ListingErrors = {} /\ exitCode = -1
    /\ ListingErrors # {} =>
          /\ ListingErrors = {Len(listLog)}
          /\ pc = "Fatal"
          /\ exitCode = 1
          /\ channels = <<>>
    /\ pc = "Validating" =>
          /\ listLog # <<>>
          /\ ListingErrors = {}
          /\ \E n \in 0..Len(remote) :
                /\ listLog[Len(listLog)].cursor + n = Len(remote)
                /\ n <= Limit

Occurrences(n, upTo) == {k \in 1..upTo : remote[k].Name = n}

Last(S) == CHOOSE k \in S : \A m \in S : m <= k

\* channels is the last-write-wins index of the first upTo listed channels.
IndexOf(upTo) ==
    /\ DOMAIN channels = {remote[k].Name : k \in 1..upTo}
    /\ \A n \in DOMAIN channels :
          /\ channels[n].ID = remote[Last(Occurrences(n, upTo))].ID
          /\ channels[n].IsArchived = remote[Last(Occurrences(n, upTo))].IsArchived

PagesInCursorOrder ==
    /\ \A k \in 1..Len(listLog) : listLog[k].result = "page"
    /\ listLog # <<>> => listLog[1].cursor = 0
    /\ \A k \in 1..(Len(listLog) - 1) : listLog[k].cursor < listLog[k + 1].cursor

PausesOf(j) == SelectSeq(trace, LAMBDA e : e.ev = "pause" /\ e.i = j)

Pauses == SelectSeq(trace, LAMBDA e : e.ev = "pause")

C17_OnePauseBetweenEntries ==
    /\ \A j \in ActiveIndexes :
          /\ Len(PausesOf(j)) = (IF j > 0 /\ CallsOf(j) # <<>> THEN 1 ELSE 0)
          /\ PausesOf(j) # <<>> =>
                /\ EventsOf(j)[1].ev = "pause"
                /\ EventsOf(j)[2].ev = "rename"
                /\ EventsOf(j)[2].attempt = 1
    /\ \A k \in 1..Len(trace) : trace[k].ev = "pause" => trace[k].i \in ActiveIndexes
    /\ pc = "Done" =>
          Len(Pauses) = (IF Len(activePlan) = 0 \/ ~applyMode THEN 0 ELSE Len(activePlan) - 1)

\* Two entries applied, the first failed after retries, one pause in all.
C17_Witness ==
    /\ pc = "Done"
    /\ Len(activePlan) = 2
    /\ Len(stdout) = 2
    /\ stdout[1].line = "FAIL"
    /\ Len(CallsOf(1)) > 1
    /\ Len(Pauses) = 1
    /\ Len(PausesOf(1)) = 1

(***************************************************************************)
(* C18: the entries of a plan with a clean verdict are independent: when   *)
(* every rename call succeeds and nothing else changes the remote state,   *)
(* every channel ends with the same name in whatever order the active      *)
(* entries are executed.                                                   *)
(***************************************************************************)
\* The remote state after the rename calls of the entries es, in order, all successful.
RECURSIVE ApplyAll(_, _)
ApplyAll(chs, es) ==
    IF es = <<>> THEN chs
    ELSE ApplyAll(renamed(chs, channels[Head(es).asis].ID, Head(es).tobe), Tail(es))

Orders(n) == {f \in [1..n -> 1..n] : \A j, k \in 1..n : f[j] = f[k] => j = k}

Reordered(es, f) == [k \in 1..Len(es) |-> es[f[k]]]

AboutToApply == pc = "Applying" /\ trace = <<>>

C18_OrderIsNoDependency ==
    AboutToApply =>
        \A f \in Orders(Len(activePlan)) :
            ApplyAll(remote, Reordered(activePlan, f)) = ApplyAll(remote, activePlan)

(***************************************************************************)
(* The same program against a workspace with one more channel than         *)
(* MaxChannels, so that a name can be listed twice beside another channel. *)
(***************************************************************************)
WideListings ==
    {[k \in 1..Len(q) |-> [ID |-> ChannelId(k), Name |-> q[k].Name, IsArchived |-> q[k].IsArchived]] :
        q \in [1..(MaxChannels + 1) -> [Name : ChannelNames, IsArchived : BOOLEAN]]}

InitWide ==
    /\ tokenSet \in BOOLEAN
    /\ applyMode \in BOOLEAN
    /\ remote \in WideListings
    /\ pc = "Loading"
    /\ exitCode = -1
    /\ phases = <<"Loading">>
    /\ plan = <<>>
    /\ channels = <<>>
    /\ cursor = 0
    /\ listLog = <<>>
    /\ fetchSleeps = 0
    /\ errs = <<>>
    /\ skipped = <<>>
    /\ activePlan = <<>>
    /\ i = 0
    /\ attempt = 1
    /\ wait = 0
    /\ failed = FALSE
    /\ stdout = <<>>
    /\ trace = <<>>

SpecWide == InitWide /\ [][Next]_vars

(***************************************************************************)
(* C19: if the non-archived channels found by the fetch have distinct      *)
(* names and validatePlan returns no error, then in every state of         *)
(* Applying, whichever rename calls succeeded, no two non-archived         *)
(* channels have the same name; the tobe values of the active entries are  *)
(* pairwise distinct and none is the name of another non-archived channel. *)
(***************************************************************************)
DistinctActive(chs) ==
    \A j, k \in 1..Len(chs) :
        (j # k /\ ~chs[j].IsArchived /\ ~chs[k].IsArchived) => chs[j].Name # chs[k].Name

\* The name the channel at position k had when it was listed: only ids of
\* the index are ever renamed, and the index keeps the name it found them under.
ListedName(k) ==
    IF \E n \in DOMAIN channels : channels[n].ID = remote[k].ID
    THEN CHOOSE n \in DOMAIN channels : channels[n].ID = remote[k].ID
    ELSE remote[k].Name

Listed == [k \in 1..Len(remote) |-> [remote[k] EXCEPT !.Name = ListedName(k)]]

TargetsAreFree ==
    /\ \A j, k \in 1..Len(activePlan) : j # k => activePlan[j].tobe # activePlan[k].tobe
    /\ \A j \in 1..Len(activePlan) : \A k \in 1..Len(remote) :
          (/\ ~Listed[k].IsArchived
           /\ Listed[k].ID # channels[activePlan[j].asis].ID)
              => Listed[k].Name # activePlan[j].tobe

C19_NoTwoActiveChannelsShareAName ==
    (pc = "Applying" /\ DistinctActive(Listed)) =>
        /\ DistinctActive(remote)
        /\ TargetsAreFree

(***************************************************************************)
(* C20: in renameChannel every rate-limited response is followed at once   *)
(* by a backoff sleep and there is no other backoff sleep, so an entry has *)
(* as many sleeps as rate-limited responses; when all 3 attempts are       *)
(* rate-limited the third sleep follows the last call, and only then the   *)
(* exceeded-retries error is returned: 3 calls, 3 sleeps, no fourth call.  *)
(***************************************************************************)
RateLimitedCallsOf(j) == SelectSeq(CallsOf(j), LAMBDA e : e.resp = "rate_limited")

C20_OneSleepPerRateLimit ==
    /\ \A k \in 1..Len(trace) :
          /\ (trace[k].ev = "rename" /\ trace[k].resp = "rate_limited")
                => /\ k < Len(trace)
                   /\ trace[k + 1].ev = "backoff"
                   /\ trace[k + 1].i = trace[k].i
                   /\ trace[k + 1].attempt = trace[k].attempt
          /\ trace[k].ev = "backoff"
                => /\ k > 1
                   /\ trace[k - 1].ev = "rename"
                   /\ trace[k - 1].resp = "rate_limited"
    /\ \A j \in ActiveIndexes :
          LET c == CallsOf(j)
              ev == EventsOf(j)
          IN  /\ Len(BackoffsOf(j)) = Len(RateLimitedCallsOf(j))
              /\ (Len(c) = maxRetries /\ AllRateLimited(c))
                    => /\ Len(BackoffsOf(j)) = 3
                       /\ ev[Len(ev)].ev = "backoff"
                       /\ ev[Len(ev)].attempt = 3
                       /\ Returned(j)
                       /\ stdout[j + 1].err = exceededMaxRetries(activePlan[j + 1].asis,
                                                                 activePlan[j + 1].tobe)
              /\ (Returned(j) /\ stdout[j + 1].err = exceededMaxRetries(activePlan[j + 1].asis,
                                                                        activePlan[j + 1].tobe))
                    => Len(c) = 3 /\ AllRateLimited(c) /\ Len(BackoffsOf(j)) = 3

\* Three rate-limited calls, three sleeps, then the failure is printed.
C20_Witness ==
    \E j \in ActiveIndexes :
        /\ Len(RateLimitedCallsOf(j)) = 3
        /\ Len(BackoffsOf(j)) = 3
        /\ Returned(j)
        /\ stdout[j + 1].line = "FAIL"
        /\ wait > 0
====
